---- MODULE Spec2Model ----
(***************************************************************************)
(* Model of weather_app.py: a Streamlit script that is re-executed from    *)
(* top to bottom on every user interaction (one execution = one "pass").   *)
(* Between passes only the widget values (the text field, the map          *)
(* component's last click) and st.session_state['location_data'] persist.  *)
(*                                                                         *)
(* Encoding of Python values:                                              *)
(*   - None is the record None; a dict is a function on its keys, so the   *)
(*     empty dict is the function with empty domain;                       *)
(*   - coordinates are integers in units of 1e-5 degree, temperatures and  *)
(*     wind speeds integers in units of 0.1;                               *)
(*   - an ISO date string "YYYY-MM-DD" is the tuple <<Y, M, D>>;           *)
(*   - a pictographic symbol is written as its ASCII name ("cloud").       *)
(***************************************************************************)
EXTENDS Integers, Sequences, FiniteSets, TLC

VARIABLES
    FOLIUM_AVAILABLE,  \* whether "import folium" succeeds in this deployment
    city_input,        \* value of the text widget (key "city_input")
    last_clicked,      \* map component value map_data['last_clicked']
    location_data,     \* st.session_state['location_data']
    pc,                \* position of the running pass in the script
    trigger,           \* the interaction that started the current pass
    geocoder_calls,    \* get_location_coordinates calls of this pass, each
                       \*   with its argument, upstream response and outcome
    weather_calls,     \* get_weather_data calls of this pass, likewise
    forecast_calls,    \* get_weather_forecast calls of this pass, likewise
    messages,          \* st.error / st.warning / st.success of this pass
    shown_location,    \* the location the display step read from the slot
    weather_data,      \* local weather_data of the display step
    shown_current,     \* the current-conditions cards rendered in this pass
    animations,        \* st.snow / st.balloons calls of this pass
    forecast_shown,    \* the forecast cards rendered in this pass
    weather_symbols,   \* the module global WEATHER_SYMBOLS at run time
    exception          \* the uncaught exception that aborted the pass, if any

vars == <<FOLIUM_AVAILABLE, city_input, last_clicked, location_data, pc,
          trigger, geocoder_calls, weather_calls, forecast_calls, messages,
          shown_location, weather_data, shown_current, animations,
          forecast_shown, weather_symbols, exception>>

-----------------------------------------------------------------------------
(* Python values *)

None == [py |-> "None"]

EmptyDict == [k \in {} |-> 0]

\* bool(v) for v that is None or a dict
Truthy(v) == v # None /\ DOMAIN v # {}

\* dict.get(key, default)
DictGet(d, key, default) == IF key \in DOMAIN d THEN d[key] ELSE default

Abs(n) == IF n < 0 THEN -n ELSE n

Pad(n, width) ==
    LET s == ToString(n)
        zeros == [i \in 1..(width - Len(s)) |-> "0"]
        RECURSIVE Join(_)
        Join(i) == IF i > Len(zeros) THEN s ELSE zeros[i] \o Join(i + 1)
    IN  Join(1)

\* format(x, ".4f") for x given in units of 1e-5: round to four decimals
\* (ties to even) and print sign, integer part and four fraction digits
Fmt4(x) ==
    LET a == Abs(x)
        q == a \div 10
        r == a % 10
        rounded == q + (IF r > 5 \/ (r = 5 /\ q % 2 = 1) THEN 1 ELSE 0)
    IN  (IF x < 0 THEN "-" ELSE "") \o ToString(rounded \div 10000)
            \o "." \o Pad(rounded % 10000, 4)

-----------------------------------------------------------------------------
(* Inputs: what the user can type or click, what the upstream can answer *)

Cities == {"", "London", "Paris", "Atlantis"}

\* clicks at (51.50743, -0.12776) and (-33.86882, 151.20929)
ClickPoints == {[lat |-> 5150743, lng |-> -12776],
                [lat |-> -3386882, lng |-> 15120929]}

\* results[0] objects the geocoding service may return for a name
Gazetteer(city_name) ==
    CASE city_name = "London" ->
           {[latitude |-> 5150853, longitude |-> -12574,
             name |-> "London", country |-> "United Kingdom"],
            [latitude |-> 5150853, longitude |-> -12574],
            [longitude |-> -12574, name |-> "London",
             country |-> "United Kingdom"]}
      [] city_name = "Paris" ->
           {[latitude |-> 4885341, longitude |-> 234880,
             name |-> "Paris", country |-> "France"]}
      [] OTHER -> {}

\* outcome of requests.get + raise_for_status + json: a RequestException
\* (connection error, timeout, non-2xx status, malformed body) or a body
GeocodingResponses(city_name) ==
    {[raised |-> "RequestException"]}
      \cup {[raised |-> "", data |-> EmptyDict]}
      \cup {[raised |-> "", data |-> [results |-> <<>>]]}
      \cup {[raised |-> "", data |-> [results |-> <<loc>>]] :
                loc \in Gazetteer(city_name)}

-----------------------------------------------------------------------------
(* get_location_coordinates: the value returned, the st.error calls made,  *)
(* and the exception that escapes (a KeyError is not a RequestException)   *)

get_location_coordinates(city_name, response) ==
    IF response.raised # ""
    THEN [ret |-> None,
          msgs |-> <<[level |-> "error",
                      text |-> "Error fetching location data: ",
                      arg |-> response.raised]>>,
          exc |-> ""]
    ELSE LET data == response.data IN
         IF "results" \in DOMAIN data /\ Len(data["results"]) > 0
         THEN LET location == data["results"][1] IN
              IF {"latitude", "longitude"} \subseteq DOMAIN location
              THEN [ret |-> [latitude |-> location["latitude"],
                             longitude |-> location["longitude"],
                             name |-> DictGet(location, "name", city_name),
                             country |-> DictGet(location, "country", "")],
                    msgs |-> <<>>, exc |-> ""]
              ELSE [ret |-> None, msgs |-> <<>>, exc |-> "KeyError"]
         ELSE [ret |-> None, msgs |-> <<>>, exc |-> ""]

-----------------------------------------------------------------------------
(* get_weather_data *)

CurrentWeatherKeys == {"temperature", "windspeed", "weathercode"}

\* weather codes the upstream is sampled over: the 28 WMO codes of the
\* catalog and four codes outside it
CatalogCodes == {0, 1, 2, 3, 45, 48, 51, 53, 55, 56, 57, 61, 63, 65, 66, 67,
                 71, 73, 75, 77, 80, 81, 82, 85, 86, 95, 96, 99}

ForeignCodes == {-1, 4, 13, 100}

Codes == CatalogCodes \cup ForeignCodes

\* {"temperature": 15.2, "windspeed": 10.0, "weathercode": code}
CurrentWeatherBlock(code) ==
    [temperature |-> 152, windspeed |-> 100, weathercode |-> code]

Restrict(d, keys) == [k \in keys |-> d[k]]

\* the "current_weather" member of a body: null, a block with any subset of
\* its three fields (the empty subset is {}), or a full block with any code
CurrentWeatherBlocks ==
    {None}
      \cup {Restrict(CurrentWeatherBlock(71), K) : K \in SUBSET CurrentWeatherKeys}
      \cup {CurrentWeatherBlock(c) : c \in Codes}

WeatherResponses ==
    {[raised |-> "RequestException"]}
      \cup {[raised |-> "", data |-> EmptyDict]}
      \cup {[raised |-> "", data |-> [current_weather |-> cw]] :
                cw \in CurrentWeatherBlocks}

get_weather_data(latitude, longitude, response) ==
    IF response.raised # ""
    THEN [ret |-> None,
          msgs |-> <<[level |-> "error",
                      text |-> "Error fetching weather data: ",
                      arg |-> response.raised]>>,
          exc |-> ""]
    ELSE IF "current_weather" \in DOMAIN response.data
         THEN [ret |-> response.data["current_weather"], msgs |-> <<>>,
               exc |-> ""]
         ELSE [ret |-> None, msgs |-> <<>>, exc |-> ""]

-----------------------------------------------------------------------------
(* get_weather_forecast *)

ForecastDays == 5

\* longest daily array the upstream is sampled with
MaxDailyLen == 6

\* lengths the four daily arrays are sampled with independently of each
\* other: one short of the requested five days, exactly five, and MaxDailyLen
DailyLens == {ForecastDays - 1, ForecastDays, MaxDailyLen}

DailyKeys == {"time", "temperature_2m_max", "temperature_2m_min", "weathercode"}

\* 2024-10-29 .. 2024-11-05, one ISO date per forecast day
DateCycle == << <<2024, 10, 29>>, <<2024, 10, 30>>, <<2024, 10, 31>>,
                <<2024, 11, 1>>, <<2024, 11, 2>>, <<2024, 11, 3>>,
                <<2024, 11, 4>>, <<2024, 11, 5>> >>

CodeCycle == <<3, 61, 13, 95, 71, 0, -1, 99>>

Cyc(s, i) == s[((i - 1) % Len(s)) + 1]

\* a daily block whose four arrays have the given lengths
DailyBlock(nt, nmax, nmin, ncode) ==
    [time |-> [i \in 1..nt |-> Cyc(DateCycle, i)],
     temperature_2m_max |-> [i \in 1..nmax |-> 200 + i],
     temperature_2m_min |-> [i \in 1..nmin |-> 100 + i],
     weathercode |-> [i \in 1..ncode |-> Cyc(CodeCycle, i)]]

\* the "daily" member of a body: four arrays of independent lengths, four
\* arrays of one length from 0 up, or a five-day block lacking some arrays
DailyBlocks ==
    {DailyBlock(a, b, c, d) : a \in DailyLens, b \in DailyLens,
                              c \in DailyLens, d \in DailyLens}
      \cup {DailyBlock(n, n, n, n) : n \in 0..MaxDailyLen}
      \cup {Restrict(DailyBlock(ForecastDays, ForecastDays, ForecastDays,
                                ForecastDays), K) :
                K \in (SUBSET DailyKeys) \ {DailyKeys}}

ForecastResponses ==
    {[raised |-> "RequestException"]}
      \cup {[raised |-> "", data |-> EmptyDict]}
      \cup {[raised |-> "", data |-> [daily |-> d]] : d \in DailyBlocks}

WeekdayNames == <<"Sun", "Mon", "Tue", "Wed", "Thu", "Fri", "Sat">>

\* day of the week of a Gregorian date (0 = Sunday)
Weekday(y, m, d) ==
    LET t  == <<0, 3, 2, 5, 0, 3, 5, 1, 4, 6, 2, 4>>
        yy == IF m < 3 THEN y - 1 ELSE y
    IN  (yy + (yy \div 4) - (yy \div 100) + (yy \div 400) + t[m] + d) % 7

\* pd.to_datetime(iso).strftime('%a %d')
FormatDate(iso) ==
    WeekdayNames[Weekday(iso[1], iso[2], iso[3]) + 1] \o " " \o Pad(iso[3], 2)

PyList(seq) == [list |-> seq]

\* the exception raised while building entry i: the dict literal reads
\* temperature_2m_max, temperature_2m_min, weathercode in this order
EntryException(daily, i) ==
    LET Probe(key) == IF key \notin DOMAIN daily THEN "KeyError"
                      ELSE IF i > Len(daily[key]) THEN "IndexError" ELSE ""
        a == Probe("temperature_2m_max")
        b == Probe("temperature_2m_min")
        c == Probe("weathercode")
    IN  IF a # "" THEN a ELSE IF b # "" THEN b ELSE c

ForecastEntry(daily, i) ==
    [date |-> FormatDate(daily["time"][i]),
     temperature_max |-> daily["temperature_2m_max"][i],
     temperature_min |-> daily["temperature_2m_min"][i],
     weathercode |-> daily["weathercode"][i]]

get_weather_forecast(latitude, longitude, response) ==
    IF response.raised # ""
    THEN [ret |-> None,
          msgs |-> <<[level |-> "error",
                      text |-> "Error fetching forecast data: ",
                      arg |-> response.raised]>>,
          exc |-> ""]
    ELSE IF "daily" \in DOMAIN response.data
         THEN LET daily == response.data["daily"] IN
              IF "time" \notin DOMAIN daily
              THEN [ret |-> None, msgs |-> <<>>, exc |-> "KeyError"]
              ELSE LET n == Len(daily["time"])
                       bad == {i \in 1..n : EntryException(daily, i) # ""}
                   IN  IF bad # {}
                       THEN [ret |-> None, msgs |-> <<>>,
                             exc |-> EntryException(daily,
                                        CHOOSE i \in bad : \A j \in bad : i <= j)]
                       ELSE [ret |-> PyList([i \in 1..n |-> ForecastEntry(daily, i)]),
                             msgs |-> <<>>, exc |-> ""]
         ELSE [ret |-> None, msgs |-> <<>>, exc |-> ""]

-----------------------------------------------------------------------------
(* WEATHER_SYMBOLS and get_weather_animation *)

WEATHER_SYMBOLS ==
    (0 :> <<"sun", "Clear sky">>) @@
    (1 :> <<"sun behind small cloud", "Mainly clear">>) @@
    (2 :> <<"sun behind large cloud", "Partly cloudy">>) @@
    (3 :> <<"cloud", "Overcast">>) @@
    (45 :> <<"fog", "Fog">>) @@
    (48 :> <<"fog", "Depositing rime fog">>) @@
    (51 :> <<"sun behind rain cloud", "Light drizzle">>) @@
    (53 :> <<"sun behind rain cloud", "Moderate drizzle">>) @@
    (55 :> <<"sun behind rain cloud", "Dense drizzle">>) @@
    (56 :> <<"cloud with rain", "Light freezing drizzle">>) @@
    (57 :> <<"cloud with rain", "Dense freezing drizzle">>) @@
    (61 :> <<"cloud with rain", "Slight rain">>) @@
    (63 :> <<"cloud with rain", "Moderate rain">>) @@
    (65 :> <<"cloud with rain", "Heavy rain">>) @@
    (66 :> <<"cloud with rain", "Light freezing rain">>) @@
    (67 :> <<"cloud with rain", "Heavy freezing rain">>) @@
    (71 :> <<"cloud with snow", "Slight snow fall">>) @@
    (73 :> <<"cloud with snow", "Moderate snow fall">>) @@
    (75 :> <<"cloud with snow", "Heavy snow fall">>) @@
    (77 :> <<"snowflake", "Snow grains">>) @@
    (80 :> <<"cloud with rain", "Slight rain showers">>) @@
    (81 :> <<"cloud with rain", "Moderate rain showers">>) @@
    (82 :> <<"cloud with rain", "Violent rain showers">>) @@
    (85 :> <<"cloud with snow", "Slight snow showers">>) @@
    (86 :> <<"cloud with snow", "Heavy snow showers">>) @@
    (95 :> <<"thunder cloud", "Thunderstorm">>) @@
    (96 :> <<"thunder cloud", "Thunderstorm with slight hail">>) @@
    (99 :> <<"thunder cloud", "Thunderstorm with heavy hail">>)

\* a lookup that falls back to the table's first entry, not to "Unknown"
LookupSymbolNoDefault(table, code) ==
    IF code \in DOMAIN table THEN table[code] ELSE table[0]

\* WEATHER_SYMBOLS.get(code, ("question mark", "Unknown")) on the dict table
LookupSymbol(table, code) ==
    IF code \in DOMAIN table THEN table[code] ELSE <<"question mark", "Unknown">>

\* an animation rule whose snow list has lost its last code
get_weather_animation_short_list(weather_code) ==
    IF weather_code \in {71, 73, 75, 77, 85} THEN <<"snow">>
    ELSE IF weather_code \in {95, 96, 99} THEN <<"balloons">>
    ELSE <<>>

\* the st.snow / st.balloons calls get_weather_animation makes
get_weather_animation(weather_code) ==
    IF weather_code \in {71, 73, 75, 77, 85, 86} THEN <<"snow">>
    ELSE IF weather_code \in {95, 96, 99} THEN <<"balloons">>
    ELSE <<>>

-----------------------------------------------------------------------------
(* The script, pass by pass *)

Msg(level, text, arg) == [level |-> level, text |-> text, arg |-> arg]

\* everything a pass records about itself, as it is when the pass starts
PassLogsReset ==
    /\ geocoder_calls' = <<>>
    /\ weather_calls' = <<>>
    /\ forecast_calls' = <<>>
    /\ shown_location' = None
    /\ weather_data' = None
    /\ shown_current' = None
    /\ animations' = <<>>
    /\ forecast_shown' = <<>>
    /\ exception' = ""

\* lines 1-175: the imports (st.error when folium is missing), the
\* definitions, WEATHER_SYMBOLS, and the session slot's initialisation,
\* which leaves an existing slot alone
ScriptStart(trig) ==
    /\ pc' = "tab1"
    /\ trigger' = trig
    /\ messages' = IF FOLIUM_AVAILABLE THEN <<>>
                   ELSE <<Msg("error", "Folium and streamlit-folium are required", "")>>
    /\ weather_symbols' = WEATHER_SYMBOLS
    /\ PassLogsReset
    /\ UNCHANGED <<FOLIUM_AVAILABLE, location_data>>

PassOver == pc \in {"done", "aborted"}

Init ==
    /\ FOLIUM_AVAILABLE \in BOOLEAN
    /\ city_input = ""
    /\ last_clicked = None
    /\ location_data = None
    /\ pc = "idle"
    /\ trigger = "none"
    /\ geocoder_calls = <<>>
    /\ weather_calls = <<>>
    /\ forecast_calls = <<>>
    /\ messages = <<>>
    /\ shown_location = None
    /\ weather_data = None
    /\ shown_current = None
    /\ animations = <<>>
    /\ forecast_shown = <<>>
    /\ weather_symbols = WEATHER_SYMBOLS
    /\ exception = ""

\* the browser opens the page: the first pass, with untouched widgets
LoadPage ==
    /\ pc = "idle"
    /\ ScriptStart("load")
    /\ UNCHANGED <<city_input, last_clicked>>

\* the user commits a new value of the text field
SubmitText ==
    /\ PassOver
    /\ \E name \in Cities :
         /\ name # city_input
         /\ city_input' = name
    /\ ScriptStart("text")
    /\ UNCHANGED last_clicked

\* the user clicks a point of the map (the map exists only with folium)
ClickMap ==
    /\ PassOver
    /\ FOLIUM_AVAILABLE
    /\ \E point \in ClickPoints :
         /\ point # last_clicked
         /\ last_clicked' = point
    /\ ScriptStart("click")
    /\ UNCHANGED city_input

\* the record a call log keeps of one call
Call(args, response, result) ==
    [args |-> args, response |-> response, ret |-> result.ret,
     exc |-> result.exc]

\* a search handler that geocodes whatever the text field holds
ShouldGeocodeAlways(city) == TRUE

\* line 179, "if city:": bool of the text field's value
ShouldGeocode(city) == city # ""

\* lines 177-186: the text-search handler
Tab1Search ==
    /\ pc = "tab1"
    /\ IF ShouldGeocode(city_input)
       THEN \E response \in GeocodingResponses(city_input) :
              LET r == get_location_coordinates(city_input, response) IN
              /\ geocoder_calls' = Append(geocoder_calls,
                     Call(<<city_input>>, response, r))
              /\ IF r.exc # ""
                 THEN /\ exception' = r.exc
                      /\ pc' = "aborted"
                      /\ messages' = messages \o r.msgs
                      /\ UNCHANGED location_data
                 ELSE /\ IF Truthy(r.ret)
                         THEN /\ location_data' = r.ret
                              /\ messages' = messages \o r.msgs \o
                                   <<Msg("success", "Selected: ",
                                         r.ret["name"] \o ", " \o r.ret["country"])>>
                         ELSE /\ messages' = messages \o r.msgs \o
                                   <<Msg("error", "Could not find location: ",
                                         city_input)>>
                              /\ location_data' = None
                      /\ pc' = "tab2"
                      /\ UNCHANGED exception
       ELSE /\ pc' = "tab2"
            /\ UNCHANGED <<geocoder_calls, location_data, messages, exception>>
    /\ UNCHANGED <<FOLIUM_AVAILABLE, city_input, last_clicked, trigger,
                   weather_calls, forecast_calls, shown_location, weather_data,
                   shown_current, animations, forecast_shown, weather_symbols>>

\* lines 202-207: the location built from a click
ClickLocation(click) ==
    [latitude |-> click["lat"],
     longitude |-> click["lng"],
     name |-> "Lat: " \o Fmt4(click["lat"]) \o ", Lon: " \o Fmt4(click["lng"]),
     country |-> ""]

\* lines 188-212: the map handler
Tab2Map ==
    /\ pc = "tab2"
    /\ IF FOLIUM_AVAILABLE
       THEN LET map_data == [last_clicked |-> last_clicked] IN
            IF Truthy(map_data) /\ "last_clicked" \in DOMAIN map_data
                 /\ Truthy(map_data["last_clicked"])
            THEN /\ location_data' = ClickLocation(map_data["last_clicked"])
                 /\ messages' = Append(messages,
                        Msg("success", "Selected location: ",
                            ClickLocation(map_data["last_clicked"])["name"]))
            ELSE UNCHANGED <<location_data, messages>>
       ELSE /\ messages' = Append(messages,
                   Msg("warning", "Map functionality is not available.", ""))
            /\ UNCHANGED location_data
    /\ pc' = "display"
    /\ UNCHANGED <<FOLIUM_AVAILABLE, city_input, last_clicked, trigger,
                   geocoder_calls, weather_calls, forecast_calls,
                   shown_location, weather_data, shown_current, animations,
                   forecast_shown, weather_symbols, exception>>

\* bool(v) for v that is None or a list
TruthyList(v) == v # None /\ Len(v.list) > 0

\* forecast_data[:5]
FirstDays(list) ==
    SubSeq(list, 1, IF Len(list) < ForecastDays THEN Len(list) ELSE ForecastDays)

\* lines 303-311: one forecast card
ForecastCard(table, day) ==
    [date |-> day["date"],
     symbol |-> LookupSymbol(table, day["weathercode"])[1],
     temperature_max |-> day["temperature_max"],
     temperature_min |-> day["temperature_min"],
     description |-> LookupSymbol(table, day["weathercode"])[2]]

\* lines 223-284: the three current-conditions cards
CurrentCards(table, data) ==
    [temperature |-> data["temperature"],
     windspeed |-> data["windspeed"],
     symbol |-> LookupSymbol(table, data["weathercode"])[1],
     description |-> LookupSymbol(table, data["weathercode"])[2]]

\* lines 215-294 and 315-316 (and, when the pass ends here, the sidebar):
\* read the slot, fetch and render the current conditions
DisplayCurrent ==
    /\ pc = "display"
    /\ shown_location' = location_data
    /\ IF Truthy(location_data)
       THEN \E response \in WeatherResponses :
              LET r == get_weather_data(location_data["latitude"],
                                        location_data["longitude"], response) IN
              /\ weather_calls' = Append(weather_calls,
                     Call(<<location_data["latitude"], location_data["longitude"]>>,
                          response, r))
              /\ weather_data' = r.ret
              /\ IF Truthy(r.ret)
                 THEN IF CurrentWeatherKeys \subseteq DOMAIN r.ret
                      THEN /\ shown_current' = CurrentCards(weather_symbols, r.ret)
                           /\ animations' = animations \o
                                  get_weather_animation(r.ret["weathercode"])
                           /\ messages' = messages \o r.msgs
                           /\ pc' = "forecast"
                           /\ UNCHANGED exception
                      ELSE /\ exception' = "KeyError"
                           /\ messages' = messages \o r.msgs
                           /\ pc' = "aborted"
                           /\ UNCHANGED <<shown_current, animations>>
                 ELSE /\ messages' = messages \o r.msgs \o
                            <<Msg("error",
                                  "Could not retrieve weather data for this location.",
                                  "")>>
                      /\ pc' = "done"
                      /\ UNCHANGED <<shown_current, animations, exception>>
       ELSE /\ pc' = "done"
            /\ UNCHANGED <<weather_calls, weather_data, shown_current,
                           animations, messages, exception>>
    /\ UNCHANGED <<FOLIUM_AVAILABLE, city_input, last_clicked, location_data,
                   trigger, geocoder_calls, forecast_calls, forecast_shown,
                   weather_symbols>>

\* lines 296-313 (and the sidebar): fetch and render the forecast
DisplayForecast ==
    /\ pc = "forecast"
    /\ \E response \in ForecastResponses :
         LET r == get_weather_forecast(shown_location["latitude"],
                                       shown_location["longitude"], response) IN
         /\ forecast_calls' = Append(forecast_calls,
                Call(<<shown_location["latitude"], shown_location["longitude"]>>,
                     response, r))
         /\ IF r.exc # ""
            THEN /\ exception' = r.exc
                 /\ messages' = messages \o r.msgs
                 /\ pc' = "aborted"
                 /\ UNCHANGED forecast_shown
            ELSE /\ IF TruthyList(r.ret)
                    THEN /\ forecast_shown' =
                              [i \in 1..Len(FirstDays(r.ret.list)) |->
                                  ForecastCard(weather_symbols,
                                               FirstDays(r.ret.list)[i])]
                         /\ messages' = messages \o r.msgs
                    ELSE /\ messages' = messages \o r.msgs \o
                              <<Msg("warning", "Could not retrieve forecast data.", "")>>
                         /\ UNCHANGED forecast_shown
                 /\ pc' = "done"
                 /\ UNCHANGED exception
    /\ UNCHANGED <<FOLIUM_AVAILABLE, city_input, last_clicked, location_data,
                   trigger, geocoder_calls, weather_calls, shown_location,
                   weather_data, shown_current, animations, weather_symbols>>

Next ==
    \/ LoadPage
    \/ SubmitText
    \/ ClickMap
    \/ Tab1Search
    \/ Tab2Map
    \/ DisplayCurrent
    \/ DisplayForecast

Spec == Init /\ [][Next]_vars

-----------------------------------------------------------------------------
TypeOK ==
    /\ FOLIUM_AVAILABLE \in BOOLEAN
    /\ city_input \in Cities
    /\ pc \in {"idle", "tab1", "tab2", "display", "forecast", "done", "aborted"}
    /\ exception \in {"", "KeyError", "IndexError"}
    /\ (pc = "aborted") = (exception # "")

-----------------------------------------------------------------------------
(* Properties *)

PassEnded == pc \in {"done", "aborted"}

HasMessage(text) == \E i \in 1..Len(messages) : messages[i].text = text

ErrorsAndWarnings ==
    SelectSeq(messages, LAMBDA m : m.level \in {"error", "warning"})

\* the Geocoder was invoked in this pass and returned NotFound or
\* TransportError (None, without an escaping exception)
GeocoderFailed ==
    \E i \in 1..Len(geocoder_calls) :
        geocoder_calls[i].ret = None /\ geocoder_calls[i].exc = ""

GeocoderSucceeded ==
    \E i \in 1..Len(geocoder_calls) : Truthy(geocoder_calls[i].ret)

\* C1: in a pass whose text field is non-empty and whose Geocoder call
\* fails, the location slot is absent when the pass reaches the display step
\* and when it ends, and no weather is fetched or shown in that pass.
C1_FailedGeocodingLeavesSlotAbsent ==
    GeocoderFailed =>
        /\ pc = "display" => location_data = None
        /\ pc \in {"forecast", "done", "aborted"} =>
             /\ location_data = None
             /\ shown_location = None
             /\ weather_calls = <<>>

\* C2: a pass started by submitting a place name that the Geocoder resolves
\* ends with the slot, and the location displayed, equal to exactly the
\* Geocoder's result.
C2_SuccessfulSearchReplacesSlot ==
    (trigger = "text" /\ PassEnded /\ GeocoderSucceeded) =>
        /\ location_data = geocoder_calls[1].ret
        /\ shown_location = geocoder_calls[1].ret

\* C3: in a pass started by a map click the Geocoder is not invoked, and the
\* location is built from the clicked coordinates, named
\* "Lat: <lat to 4 decimals>, Lon: <lon to 4 decimals>", with empty country.
C3_MapClickBypassesGeocoder ==
    trigger = "click" =>
        /\ geocoder_calls = <<>>
        /\ pc \in {"display", "forecast", "done"} =>
             location_data =
                 [latitude |-> last_clicked["lat"],
                  longitude |-> last_clicked["lng"],
                  name |-> "Lat: " \o Fmt4(last_clicked["lat"])
                               \o ", Lon: " \o Fmt4(last_clicked["lng"]),
                  country |-> ""]

\* C4: a pass that completes with a location in the slot has issued both the
\* current-conditions fetch and the forecast fetch, and shows the forecast
\* whenever the forecast fetch itself succeeded.
C4_ForecastIndependentOfCurrent ==
    (pc = "done" /\ Truthy(shown_location)) =>
        /\ Len(weather_calls) = 1
        /\ Len(forecast_calls) = 1
        /\ TruthyList(forecast_calls[1].ret) => forecast_shown # <<>>

\* the st.error / st.warning calls made because the current-weather fetch
\* did not deliver
WeatherFailureMessages ==
    SelectSeq(ErrorsAndWarnings,
              LAMBDA m : m.text \in
                  {"Error fetching weather data: ",
                   "Could not retrieve weather data for this location."})

\* C5: a pass in which the current-weather request fails at the transport
\* level surfaces exactly one st.error / st.warning for that failure.
C5_OneMessageForWeatherTransportError ==
    (PassEnded /\ weather_calls # <<>>
        /\ weather_calls[1].response.raised # "") =>
        Len(WeatherFailureMessages) = 1

\* C6: a current_weather block lacking temperature, windspeed or weathercode
\* is Unavailable: the pass shows "Could not retrieve weather data for this
\* location.", renders no current conditions and completes normally.
C6_IncompleteBlockIsUnavailable ==
    (PassEnded /\ weather_calls # <<>> /\ weather_calls[1].ret # None
        /\ ~(CurrentWeatherKeys \subseteq DOMAIN weather_calls[1].ret)) =>
        /\ pc = "done"
        /\ exception = ""
        /\ shown_current = None
        /\ HasMessage("Could not retrieve weather data for this location.")

\* the catalog as documented: code, symbol, description
DocumentedCatalog ==
    {<<0, "sun", "Clear sky">>,
     <<1, "sun behind small cloud", "Mainly clear">>,
     <<2, "sun behind large cloud", "Partly cloudy">>,
     <<3, "cloud", "Overcast">>,
     <<45, "fog", "Fog">>,
     <<48, "fog", "Depositing rime fog">>,
     <<51, "sun behind rain cloud", "Light drizzle">>,
     <<53, "sun behind rain cloud", "Moderate drizzle">>,
     <<55, "sun behind rain cloud", "Dense drizzle">>,
     <<56, "cloud with rain", "Light freezing drizzle">>,
     <<57, "cloud with rain", "Dense freezing drizzle">>,
     <<61, "cloud with rain", "Slight rain">>,
     <<63, "cloud with rain", "Moderate rain">>,
     <<65, "cloud with rain", "Heavy rain">>,
     <<66, "cloud with rain", "Light freezing rain">>,
     <<67, "cloud with rain", "Heavy freezing rain">>,
     <<71, "cloud with snow", "Slight snow fall">>,
     <<73, "cloud with snow", "Moderate snow fall">>,
     <<75, "cloud with snow", "Heavy snow fall">>,
     <<77, "snowflake", "Snow grains">>,
     <<80, "cloud with rain", "Slight rain showers">>,
     <<81, "cloud with rain", "Moderate rain showers">>,
     <<82, "cloud with rain", "Violent rain showers">>,
     <<85, "cloud with snow", "Slight snow showers">>,
     <<86, "cloud with snow", "Heavy snow showers">>,
     <<95, "thunder cloud", "Thunderstorm">>,
     <<96, "thunder cloud", "Thunderstorm with slight hail">>,
     <<99, "thunder cloud", "Thunderstorm with heavy hail">>}

\* what the documentation promises for a code
DocumentedEntry(code) ==
    IF \E t \in DocumentedCatalog : t[1] = code
    THEN LET t == CHOOSE u \in DocumentedCatalog : u[1] = code
         IN  <<t[2], t[3]>>
    ELSE <<"question mark", "Unknown">>

\* C7: the catalog always holds exactly the 28 documented codes with their
\* documented pairs, and every symbol and description rendered, for the
\* current conditions and for each forecast day, is the documented pair of
\* its code, or ("question mark", "Unknown") for a code outside the catalog.
C7_LookupIsTotalAndCatalogFixed ==
    /\ Cardinality(DocumentedCatalog) = 28
    /\ DOMAIN weather_symbols = {t[1] : t \in DocumentedCatalog}
    /\ \A t \in DocumentedCatalog : weather_symbols[t[1]] = <<t[2], t[3]>>
    /\ shown_current # None =>
         <<shown_current.symbol, shown_current.description>>
             = DocumentedEntry(weather_data["weathercode"])
    /\ \A i \in 1..Len(forecast_shown) :
         <<forecast_shown[i].symbol, forecast_shown[i].description>>
             = DocumentedEntry(forecast_calls[1].ret.list[i]["weathercode"])

\* a completed pass that rendered an unmapped current code (13) and five
\* forecast days, among them a mapped code (3) and an unmapped one (13)
C7_Witness ==
    /\ pc = "done"
    /\ shown_current # None
    /\ weather_data["weathercode"] = 13
    /\ shown_current.description = "Unknown"
    /\ Len(forecast_shown) = 5
    /\ forecast_shown[1].description = "Overcast"
    /\ forecast_shown[3].description = "Unknown"

\* C8: the Geocoder is never called with an empty place name, it is called
\* only in passes whose text field is non-empty, and the search handler of
\* a pass with an empty text field leaves the location slot as it was.
C8_GeocoderNeverGetsEmptyName ==
    /\ [](/\ \A i \in 1..Len(geocoder_calls) : geocoder_calls[i].args[1] # ""
          /\ geocoder_calls # <<>> => city_input # "")
    /\ [][(pc = "tab1" /\ city_input = "") =>
             (location_data' = location_data /\ geocoder_calls' = <<>>)]_vars

\* the user has cleared the text field after a successful search: the
\* search handler has run, called nothing, and the slot still holds London
C8_Witness ==
    /\ pc = "tab2"
    /\ trigger = "text"
    /\ city_input = ""
    /\ geocoder_calls = <<>>
    /\ Truthy(location_data)
    /\ location_data["name"] = "London"

SnowCodes == {71, 73, 75, 77, 85, 86}

CelebrationCodes == {95, 96, 99}

\* C9: at most one animation fires per pass; none fires unless current
\* conditions were obtained and rendered; when they were, snow fires exactly
\* for the snow codes, the celebration exactly for the thunderstorm codes,
\* and nothing for any other code.
C9_AnimationFollowsCurrentCode ==
    /\ Len(animations) <= 1
    /\ ~Truthy(weather_data) => animations = <<>>
    /\ shown_current = None => animations = <<>>
    /\ shown_current # None =>
         LET code == weather_data["weathercode"] IN
         /\ code \in SnowCodes => animations = <<"snow">>
         /\ code \in CelebrationCodes => animations = <<"balloons">>
         /\ code \notin SnowCodes \cup CelebrationCodes => animations = <<>>

\* a completed pass whose current code was 86 (heavy snow showers)
C9_Witness ==
    /\ pc = "done"
    /\ animations = <<"snow">>
    /\ weather_data["weathercode"] = 86

\* the shortest of the four daily arrays
ShortestDaily(daily) ==
    CHOOSE n \in {Len(daily[k]) : k \in DailyKeys} :
        \A k \in DailyKeys : n <= Len(daily[k])

\* C10: for a daily block with its four arrays, the ForecastFetcher raises
\* nothing and returns min(lengths) entries, entry i built from index i of
\* each array.
C10_ForecastTruncatesToShortest ==
    \A c \in 1..Len(forecast_calls) :
        LET call == forecast_calls[c] IN
        (/\ call.response.raised = ""
         /\ "daily" \in DOMAIN call.response.data
         /\ DailyKeys \subseteq DOMAIN call.response.data["daily"]) =>
            LET daily == call.response.data["daily"] IN
            /\ call.exc = ""
            /\ call.ret # None
            /\ Len(call.ret.list) = ShortestDaily(daily)
            /\ \A i \in 1..ShortestDaily(daily) :
                 /\ call.ret.list[i]["temperature_max"]
                        = daily["temperature_2m_max"][i]
                 /\ call.ret.list[i]["temperature_min"]
                        = daily["temperature_2m_min"][i]
                 /\ call.ret.list[i]["weathercode"] = daily["weathercode"][i]

====
